---------------------------- MODULE Spec2Model ----------------------------
(***************************************************************************)
(* A model of the in-memory key-value store of src/src/kvstore.py          *)
(* (class KVStore) with its transaction logger src/src/logs.py and the     *)
(* command interpreter KVStore.process_command.                            *)
(*                                                                         *)
(* Python dictionaries are functions whose DOMAIN is the set of keys        *)
(* present; Python lists are sequences; Python strings are strings and     *)
(* f-strings are built with \o.  A TransactionLogger is an object on a     *)
(* heap (loggers) and is referred to by its identity, so that the stack    *)
(* frame and _current_logger share one logger as they do in the code.      *)
(***************************************************************************)
EXTENDS Integers, Sequences, FiniteSets, TLC

\* Bounds of the model.
MaxDepth == 2        \* begin() is not called with MaxDepth open transactions
MaxRecords == 3      \* the loggers alive hold at most MaxRecords records in all
MaxDepthTyped == 1   \* BEGIN is not typed with MaxDepthTyped open transactions
MaxRecordsTyped == 2 \* no command is typed that appends beyond MaxRecordsTyped records

\* The strings the callers pass as keys and as values.
Keys == {"a", "b"}
Vals == {"foo", "bar"}

\* self._current_logger = None
NoLogger == 0

VARIABLES
    data,            \* self._data: key -> value
    val_keys,        \* self._val_keys: value -> set of keys
    tx_stack,        \* self._tx_stack: list of ((data, val_keys), logger)
    current_logger,  \* self._current_logger: a logger's identity or NoLogger
    loggers,         \* the TransactionLogger objects alive: identity -> changes
    out,             \* the lines the last call printed
    ret,             \* what the last call returned
    running,         \* FALSE once END has called sys.exit
    before,          \* history: per open transaction, the live state at its begin()
                     \*   and the calls made since while it was the innermost
    popped           \* history: <<record>> when the last call was rollback() or commit()

store == <<data, val_keys, tx_stack, current_logger, loggers>>
vars == <<data, val_keys, tx_stack, current_logger, loggers, out, ret, running,
          before, popped>>

-----------------------------------------------------------------------------
\* Python's dict and list primitives.

\* {} : the empty dict
EmptyDict == [k \in {} |-> k]

\* d[k] = v
Put(d, k, v) == [x \in (DOMAIN d) \cup {k} |-> IF x = k THEN v ELSE d[x]]

\* del d[k]
Del(d, k) == [x \in (DOMAIN d) \ {k} |-> d[x]]

\* defaultdict(set).__getitem__: reading a missing value inserts an empty set
Touch(vk, v) == IF v \in DOMAIN vk THEN vk ELSE Put(vk, v, {})

\* lst[-1] and lst without its last element (list.pop())
Top(s) == s[Len(s)]
Pop(s) == SubSeq(s, 1, Len(s) - 1)

-----------------------------------------------------------------------------
\* Strings: code points, comparison, sorted(), ' '.join and repr of a list.

\* The code points of the strings that are sorted (the keys).
CodePoints(s) ==
    CASE s = "a" -> <<97>>
      [] s = "b" -> <<98>>
      [] s = "c" -> <<99>>
      [] OTHER -> <<>>

\* str.__lt__: lexicographic comparison by code point
RECURSIVE SeqLess(_, _)
SeqLess(s, t) ==
    IF t = <<>> THEN FALSE
    ELSE IF s = <<>> THEN TRUE
    ELSE IF Head(s) # Head(t) THEN Head(s) < Head(t)
    ELSE SeqLess(Tail(s), Tail(t))

StrLess(s, t) == SeqLess(CodePoints(s), CodePoints(t))

\* As sorted, called with reverse=True: descending
RECURSIVE sorted_descending(_)
sorted_descending(S) ==
    IF S = {} THEN <<>>
    ELSE LET m == CHOOSE x \in S : \A y \in S \ {x} : StrLess(y, x)
         IN <<m>> \o sorted_descending(S \ {m})

\* sorted(S) for a set of strings S: ascending
RECURSIVE sorted(_)
sorted(S) ==
    IF S = {} THEN <<>>
    ELSE LET m == CHOOSE x \in S : \A y \in S \ {x} : StrLess(x, y)
         IN <<m>> \o sorted(S \ {m})

\* sep.join(lst)
RECURSIVE join(_, _)
join(sep, lst) ==
    IF lst = <<>> THEN ""
    ELSE IF Len(lst) = 1 THEN lst[1]
    ELSE lst[1] \o sep \o join(sep, Tail(lst))

\* repr of a list of strings, as an f-string formats it: ['BEGIN', 'SET a foo']
RECURSIVE quoted(_)
quoted(lst) ==
    IF lst = <<>> THEN <<>> ELSE <<"'" \o Head(lst) \o "'">> \o quoted(Tail(lst))

repr(lst) == "[" \o join(", ", quoted(lst)) \o "]"

-----------------------------------------------------------------------------
\* TransactionLogger (src/src/logs.py)

\* TransactionLogger(): a new object; its identity is the least one not alive
NewLogger == CHOOSE i \in 1..(Cardinality(DOMAIN loggers) + 1) :
                 /\ i \notin DOMAIN loggers
                 /\ \A j \in 1..(i - 1) : j \in DOMAIN loggers

\* As log, with the message put in front of the records
log_newest_first(lg, logger, message) ==
    [lg EXCEPT ![logger] = <<message>> \o @]

\* logger.log(message) on the heap lg
log(lg, logger, message) == [lg EXCEPT ![logger] = Append(@, message)]

\* logger.get_changes()
get_changes(lg, logger) == lg[logger]

\* The loggers some reference still reaches; the others are reclaimed.
Alive(lg, stack, cur) ==
    LET refs == {stack[i].logger : i \in 1..Len(stack)} \cup ({cur} \ {NoLogger})
    IN [i \in (DOMAIN lg) \cap refs |-> lg[i]]

-----------------------------------------------------------------------------
\* The store engine: the effect of set and unset on the two maps, and the reads.

\* As set_discard_old, with lines 126-127 (and 149-150) left out: the emptied
\* entry stays in the index
set_discard_old_keeps_empty(d, vk, key) ==
    IF key \in DOMAIN d
    THEN LET old_val == d[key]
             vk1 == Touch(vk, old_val)
         IN [vk1 EXCEPT ![old_val] = @ \ {key}]
    ELSE vk

\* set, lines 121-127: an existing key leaves the set of its old value,
\* and the entry is deleted when that set becomes empty
set_discard_old(d, vk, key) ==
    IF key \in DOMAIN d
    THEN LET old_val == d[key]
             vk1 == Touch(vk, old_val)
             vk2 == [vk1 EXCEPT ![old_val] = @ \ {key}]
         IN IF vk2[old_val] = {} THEN Del(vk2, old_val) ELSE vk2
    ELSE vk

\* As set_data, written as dict.setdefault: a key already set keeps its value
set_data_setdefault(d, key, value) == IF key \in DOMAIN d THEN d ELSE Put(d, key, value)

\* set, line 130
set_data(d, key, value) == Put(d, key, value)

\* As set_val_keys, with the key added to the set of the new value before it
\* leaves the set of the old one
set_val_keys_adds_first(d, vk, key, value) ==
    LET vk1 == Touch(vk, value)
    IN set_discard_old(d, [vk1 EXCEPT ![value] = @ \cup {key}], key)

\* set, lines 121-132, on the reverse index
set_val_keys(d, vk, key, value) ==
    LET vk3 == Touch(set_discard_old(d, vk, key), value)
    IN [vk3 EXCEPT ![value] = @ \cup {key}]

\* unset, line 145
unset_data(d, key) == IF key \in DOMAIN d THEN Del(d, key) ELSE d

\* unset, lines 143-150, on the reverse index
unset_val_keys(d, vk, key) == set_discard_old(d, vk, key)

\* get
get(d, key) == IF key \in DOMAIN d THEN d[key] ELSE "NULL"

\* counts
counts(vk, value) == Cardinality(IF value \in DOMAIN vk THEN vk[value] ELSE {})

\* find
find(vk, value) ==
    LET keys == IF value \in DOMAIN vk THEN vk[value] ELSE {}
    IN IF keys # {} THEN sorted(keys) ELSE <<>>

\* _snapshot: a copy of _data and a copy of _val_keys with a copy of every set
snapshot(d, vk) == <<[k \in DOMAIN d |-> d[k]], [v \in DOMAIN vk |-> vk[v]]>>


-----------------------------------------------------------------------------
\* The methods of KVStore: what each call does to the store, to stdout (out)
\* and to the history variables.  ret and running are set by the caller.

\* History of a call: its record, for the innermost open transaction
Called(record) ==
    IF before = <<>> THEN before
    ELSE [before EXCEPT ![Len(before)].calls = Append(@, record)]

\* As set, with the top frame's snapshot being the live maps and not a copy
set_writes_snapshot(key, value) ==
    /\ data' = set_data(data, key, value)
    /\ val_keys' = set_val_keys(data, val_keys, key, value)
    /\ tx_stack' = IF tx_stack = <<>> THEN tx_stack
                   ELSE [tx_stack EXCEPT ![Len(tx_stack)].snapshot =
                            <<data', val_keys'>>]
    /\ loggers' = IF current_logger # NoLogger
                  THEN log(loggers, current_logger, "SET " \o key \o " " \o value)
                  ELSE loggers
    /\ out' = <<>>
    /\ before' = Called("SET " \o key \o " " \o value)
    /\ popped' = <<>>
    /\ UNCHANGED current_logger

\* As set, recording the call only when it changes the value of the key
set_records_changes(key, value) ==
    /\ data' = set_data(data, key, value)
    /\ val_keys' = set_val_keys(data, val_keys, key, value)
    /\ loggers' = IF current_logger # NoLogger /\ get(data, key) # value
                  THEN log(loggers, current_logger, "SET " \o key \o " " \o value)
                  ELSE loggers
    /\ out' = <<>>
    /\ before' = Called("SET " \o key \o " " \o value)
    /\ popped' = <<>>
    /\ UNCHANGED <<tx_stack, current_logger>>

\* KVStore.set(key, value)
set(key, value) ==
    /\ data' = set_data(data, key, value)
    /\ val_keys' = set_val_keys(data, val_keys, key, value)
    /\ loggers' = IF current_logger # NoLogger
                  THEN log(loggers, current_logger, "SET " \o key \o " " \o value)
                  ELSE loggers
    /\ out' = <<>>
    /\ before' = Called("SET " \o key \o " " \o value)
    /\ popped' = <<>>
    /\ UNCHANGED <<tx_stack, current_logger>>

\* As unset, recording the call whether or not the key is set
unset_records_always(key) ==
    /\ data' = unset_data(data, key)
    /\ val_keys' = unset_val_keys(data, val_keys, key)
    /\ loggers' = IF current_logger # NoLogger
                  THEN log(loggers, current_logger, "UNSET " \o key)
                  ELSE loggers
    /\ out' = <<>>
    /\ before' = IF key \in DOMAIN data THEN Called("UNSET " \o key) ELSE before
    /\ popped' = <<>>
    /\ UNCHANGED <<tx_stack, current_logger>>

\* KVStore.unset(key)
unset(key) ==
    /\ data' = unset_data(data, key)
    /\ val_keys' = unset_val_keys(data, val_keys, key)
    /\ loggers' = IF key \in DOMAIN data /\ current_logger # NoLogger
                  THEN log(loggers, current_logger, "UNSET " \o key)
                  ELSE loggers
    /\ out' = <<>>
    /\ before' = IF key \in DOMAIN data THEN Called("UNSET " \o key) ELSE before
    /\ popped' = <<>>
    /\ UNCHANGED <<tx_stack, current_logger>>

\* As begin, with the new frame put under the frames of the stack
begin_at_bottom ==
    LET logger == NewLogger
    IN /\ tx_stack' = <<[snapshot |-> snapshot(data, val_keys),
                         logger |-> logger]>> \o tx_stack
       /\ current_logger' = logger
       /\ loggers' = log(Put(loggers, logger, <<>>), logger, "BEGIN")
       /\ out' = <<>>
       /\ before' = Append(before, [data |-> data, val_keys |-> val_keys,
                                    calls |-> <<"BEGIN">>])
       /\ popped' = <<>>
       /\ UNCHANGED <<data, val_keys>>

\* KVStore.begin()
begin ==
    LET logger == NewLogger
    IN /\ tx_stack' = Append(tx_stack, [snapshot |-> snapshot(data, val_keys),
                                        logger |-> logger])
       /\ current_logger' = logger
       /\ loggers' = log(Put(loggers, logger, <<>>), logger, "BEGIN")
       /\ out' = <<>>
       /\ before' = Append(before, [data |-> data, val_keys |-> val_keys,
                                    calls |-> <<"BEGIN">>])
       /\ popped' = <<>>
       /\ UNCHANGED <<data, val_keys>>

\* As logger_after_pop, with _current_logger cleared after every pop
logger_after_pop_none(stack) == NoLogger

\* The logger _current_logger is set to after a pop (lines 88 and 110)
logger_after_pop(stack) == IF stack # <<>> THEN Top(stack).logger ELSE NoLogger

\* As restore, assigning only self._data: the reverse index stays as it is
restore_data_only(snap) == [data |-> snap[1], val_keys |-> val_keys]

\* The state _restore(snapshot) installs (line 52)
restore(snap) == [data |-> snap[1], val_keys |-> snap[2]]

\* History of a rollback() or commit(): what it did ("rollback", "commit", or
\* "none" on an empty stack), whether the live state differed from the state
\* at the matching begin(), the calls made in the transaction it ended, and
\* the first two facts about the call before it when that call was a
\* rollback() or commit() too.
Popped(how) ==
    <<[how |-> how,
       calls |-> IF how = "none" THEN <<>> ELSE Top(before).calls,
       changed |-> /\ how # "none"
                   /\ <<data, val_keys>> # <<Top(before).data, Top(before).val_keys>>,
       prev |-> IF popped = <<>> THEN "" ELSE popped[1].how,
       prev_changed |-> popped # <<>> /\ popped[1].changed]>>

\* As rollback_top, popping the oldest frame (pop(0)) instead of the newest
rollback_oldest ==
    LET frame == Head(tx_stack)
        rest == Tail(tx_stack)
        cur == logger_after_pop(rest)
    IN /\ tx_stack' = rest
       /\ data' = restore(frame.snapshot).data
       /\ val_keys' = restore(frame.snapshot).val_keys
       /\ out' = <<"ROLLBACK: Changes reverted. Log: "
                   \o repr(get_changes(loggers, frame.logger))>>
       /\ current_logger' = cur
       /\ loggers' = Alive(loggers, rest, cur)
       /\ before' = Pop(before)
       /\ popped' = Popped("rollback")

\* KVStore.rollback(), lines 78-90: the stack is not empty
rollback_top ==
    LET frame == Top(tx_stack)
        rest == Pop(tx_stack)
        cur == logger_after_pop(rest)
    IN /\ tx_stack' = rest
       /\ data' = restore(frame.snapshot).data
       /\ val_keys' = restore(frame.snapshot).val_keys
       /\ out' = <<"ROLLBACK: Changes reverted. Log: "
                   \o repr(get_changes(loggers, frame.logger))>>
       /\ current_logger' = cur
       /\ loggers' = Alive(loggers, rest, cur)
       /\ before' = Pop(before)
       /\ popped' = Popped("rollback")

\* As commit_top, also replacing the enclosing frame's snapshot by one of the
\* live state
commit_top_resnapshots ==
    LET frame == Top(tx_stack)
        rest == Pop(tx_stack)
        cur == logger_after_pop(rest)
    IN /\ tx_stack' = IF rest = <<>> THEN rest
                      ELSE [rest EXCEPT ![Len(rest)].snapshot = snapshot(data, val_keys)]
       /\ out' = <<"COMMIT: Changes applied. Log: "
                   \o repr(get_changes(loggers, frame.logger))>>
       /\ current_logger' = cur
       /\ loggers' = Alive(loggers, rest, cur)
       /\ before' = Pop(before)
       /\ popped' = Popped("commit")
       /\ UNCHANGED <<data, val_keys>>

\* As commit_top, also appending the popped logger's records to the
\* enclosing frame's logger
commit_top_merges_log ==
    LET frame == Top(tx_stack)
        rest == Pop(tx_stack)
        cur == logger_after_pop(rest)
        merged == IF rest = <<>> THEN loggers
                  ELSE [loggers EXCEPT ![cur] = @ \o Tail(loggers[frame.logger])]
    IN /\ tx_stack' = rest
       /\ out' = <<"COMMIT: Changes applied. Log: "
                   \o repr(get_changes(loggers, frame.logger))>>
       /\ current_logger' = cur
       /\ loggers' = Alive(merged, rest, cur)
       /\ before' = Pop(before)
       /\ popped' = Popped("commit")
       /\ UNCHANGED <<data, val_keys>>

\* KVStore.commit(), lines 103-112: the stack is not empty
commit_top ==
    LET frame == Top(tx_stack)
        rest == Pop(tx_stack)
        cur == logger_after_pop(rest)
    IN /\ tx_stack' = rest
       /\ out' = <<"COMMIT: Changes applied. Log: "
                   \o repr(get_changes(loggers, frame.logger))>>
       /\ current_logger' = cur
       /\ loggers' = Alive(loggers, rest, cur)
       /\ before' = Pop(before)
       /\ popped' = Popped("commit")
       /\ UNCHANGED <<data, val_keys>>

\* rollback() and commit(), lines 74-76 and 99-101: the stack is empty
no_transaction ==
    /\ out' = <<"NO TRANSACTION">>
    /\ popped' = Popped("none")
    /\ UNCHANGED <<store, before>>

\* As rollback_result, returning True on every path
rollback_result_always == TRUE

\* KVStore.rollback(); its return value is rollback_result
rollback == IF tx_stack = <<>> THEN no_transaction ELSE rollback_top
rollback_result == tx_stack # <<>>

\* KVStore.commit(); its return value is commit_result
commit == IF tx_stack = <<>> THEN no_transaction ELSE commit_top
commit_result == tx_stack # <<>>

\* As read, with the value looked up by self._val_keys[value], which makes
\* an empty entry for a value that has none
read_makes_entry ==
    /\ \E value \in Vals : val_keys' = Touch(val_keys, value)
    /\ out' = <<>>
    /\ popped' = <<>>
    /\ UNCHANGED <<data, tx_stack, current_logger, loggers, before>>

\* A read (get, counts, find) changes nothing
read ==
    /\ out' = <<>>
    /\ popped' = <<>>
    /\ UNCHANGED <<store, before>>

-----------------------------------------------------------------------------
\* The calls a client of the class makes (as the tests do).

\* What a method returns, by its Python type
None == <<"None">>
Bool(b) == <<"bool", b>>
Str(s) == <<"str", s>>
Num(n) == <<"int", n>>
List(l) == <<"list", l>>

\* The number of records the loggers alive hold
RECURSIVE Records(_)
Records(lg) ==
    IF DOMAIN lg = {} THEN 0
    ELSE LET i == CHOOSE j \in DOMAIN lg : TRUE
         IN Len(lg[i]) + Records([j \in (DOMAIN lg) \ {i} |-> lg[j]])

\* There is room for one more record
LogRoom == Records(loggers) < MaxRecords

Set(key, value) ==
    /\ current_logger # NoLogger => LogRoom
    /\ set(key, value)
    /\ ret' = None
    /\ UNCHANGED running

Unset(key) ==
    /\ key \in DOMAIN data /\ current_logger # NoLogger => LogRoom
    /\ unset(key)
    /\ ret' = None
    /\ UNCHANGED running

Get(key) ==
    /\ read
    /\ ret' = Str(get(data, key))
    /\ UNCHANGED running

Counts(value) ==
    /\ read
    /\ ret' = Num(counts(val_keys, value))
    /\ UNCHANGED running

Find(value) ==
    /\ read
    /\ ret' = List(find(val_keys, value))
    /\ UNCHANGED running

Begin ==
    /\ Len(tx_stack) < MaxDepth
    /\ LogRoom
    /\ begin
    /\ ret' = None
    /\ UNCHANGED running

Rollback ==
    /\ rollback
    /\ ret' = Bool(rollback_result)
    /\ UNCHANGED running

Commit ==
    /\ commit
    /\ ret' = Bool(commit_result)
    /\ UNCHANGED running

\* KVStore.__init__
Init ==
    /\ data = EmptyDict
    /\ val_keys = EmptyDict
    /\ tx_stack = <<>>
    /\ current_logger = NoLogger
    /\ loggers = EmptyDict
    /\ out = <<>>
    /\ ret = None
    /\ running = TRUE
    /\ before = <<>>
    /\ popped = <<>>

Next ==
    \/ \E key \in Keys, value \in Vals : Set(key, value)
    \/ \E key \in Keys : Unset(key)
    \/ \E key \in Keys : Get(key)
    \/ \E value \in Vals : Counts(value)
    \/ \E value \in Vals : Find(value)
    \/ Begin
    \/ Rollback
    \/ Commit

Spec == Init /\ [][Next]_vars

-----------------------------------------------------------------------------
\* The command interpreter: KVStore.process_command and the loop of main.py.

\* The tokens that follow the verb: none, one, two or three of them
ArgLists ==
    {<<>>}
    \cup {<<t>> : t \in Keys \cup Vals}
    \cup {<<k, v>> : k \in Keys, v \in Vals}
    \cup {<<"a", "foo", "bar">>}

\* line.split() of the lines typed: an empty line, the commands with
\* arguments, those without, verbs in another case, and unknown verbs
Lines ==
    {<<>>}
    \cup {<<w>> \o args : w \in {"SET", "GET", "UNSET", "COUNTS", "FIND"},
                          args \in ArgLists}
    \cup {<<"BEGIN">>, <<"ROLLBACK">>, <<"COMMIT">>, <<"END">>, <<"COMMIT", "a">>}
    \cup {<<"set", "b", "bar">>, <<"Get", "a">>, <<"unset">>, <<"rollback">>}
    \cup {<<"FOO">>, <<"gets", "a">>}

\* As upper, with the first token compared as typed
upper_as_typed(s) == s

\* str.upper() of a first token
upper(s) ==
    CASE s = "set" -> "SET"
      [] s = "Get" -> "GET"
      [] s = "unset" -> "UNSET"
      [] s = "rollback" -> "ROLLBACK"
      [] s = "gets" -> "GETS"
      [] OTHER -> s

\* print(...) by a command that touches nothing else
prints(lines) ==
    /\ out' = lines
    /\ popped' = <<>>
    /\ UNCHANGED <<store, before>>

\* parts[1] raises IndexError, which process_command reports (lines 208-209)
IndexError == prints(<<"ERROR: " \o "list index out of range">>)

\* KVStore._handle_set(parts)
handle_set(parts) ==
    IF Len(parts) = 3
    THEN set(parts[2], parts[3])
    ELSE prints(<<"INVALID SET COMMAND">>)

\* KVStore._handle_find(parts)
handle_find(parts) ==
    IF Len(parts) = 2
    THEN LET keys == find(val_keys, parts[2])
         IN prints(<<IF keys # <<>> THEN join(" ", keys) ELSE "NONE">>)
    ELSE prints(<<"INVALID FIND COMMAND">>)

\* command_map['GET'], ['UNSET'], ['COUNTS'] (lines 193-195)
command_get(parts) ==
    IF Len(parts) >= 2 THEN prints(<<get(data, parts[2])>>) ELSE IndexError

command_unset(parts) ==
    IF Len(parts) >= 2 THEN unset(parts[2]) ELSE IndexError

command_counts(parts) ==
    IF Len(parts) >= 2 THEN prints(<<ToString(counts(val_keys, parts[2]))>>)
    ELSE IndexError

\* KVStore.process_command(parts), parts not empty: the store, stdout, history
dispatch(parts) ==
    LET cmd == upper(parts[1])
    IN CASE cmd = "SET" -> handle_set(parts)
         [] cmd = "GET" -> command_get(parts)
         [] cmd = "UNSET" -> command_unset(parts)
         [] cmd = "COUNTS" -> command_counts(parts)
         [] cmd = "FIND" -> handle_find(parts)
         [] cmd = "BEGIN" -> begin
         [] cmd = "ROLLBACK" -> rollback
         [] cmd = "COMMIT" -> commit
         [] cmd = "END" -> prints(<<>>)
         [] OTHER -> prints(<<"INVALID COMMAND: " \o join(" ", parts)>>)

\* sys.exit(0) is not caught by process_command nor by main: the process ends
exits(parts) == parts # <<>> /\ upper(parts[1]) = "END"

\* KVStore.process_command(parts)
process_command(parts) ==
    /\ IF parts = <<>> THEN prints(<<>>) ELSE dispatch(parts)
    /\ running' = ~exits(parts)
    /\ ret' = None

\* The command would push a frame or append a record, and there is room
CommandRoom(parts) ==
    LET cmd == IF parts = <<>> THEN "" ELSE upper(parts[1])
        room == Records(loggers) < MaxRecordsTyped
    IN /\ cmd = "BEGIN" => Len(tx_stack) < MaxDepthTyped /\ room
       /\ cmd \in {"SET", "UNSET"} /\ current_logger # NoLogger => room

\* One turn of the loop of main(): a line is read, split and processed
ProcessCommand(parts) ==
    /\ running
    /\ CommandRoom(parts)
    /\ process_command(parts)

NextCommand == \E parts \in Lines : ProcessCommand(parts)

SpecCommands == Init /\ [][NextCommand]_vars

-----------------------------------------------------------------------------
\* Properties of the store and of its transactions.

\* The keys the primary mapping maps to value
KeysOf(d, value) == {k \in DOMAIN d : d[k] = value}

\* The last call was a rollback() or commit() that did `how`
Did(how) == popped # <<>> /\ popped[1].how = how

\* C1: in every reachable state the primary mapping and the reverse index
\* agree: key k is in the reverse-index set of value v exactly when the
\* primary mapping maps k to v, and no reverse-index entry is an empty set.
C1_IndexAgrees ==
    /\ \A v \in DOMAIN val_keys : val_keys[v] # {} /\ val_keys[v] = KeysOf(data, v)
    /\ \A k \in DOMAIN data : data[k] \in DOMAIN val_keys /\ k \in val_keys[data[k]]

\* C1's case: both keys are set, to different values, right after a rollback
\* that undid changes while an outer transaction stays open.
C1_Witness ==
    /\ Did("rollback") /\ popped[1].changed
    /\ tx_stack # <<>>
    /\ DOMAIN data = Keys
    /\ Cardinality(DOMAIN val_keys) = 2

\* C2: a successful rollback() leaves the primary mapping and the reverse
\* index equal to what they were immediately before the matching begin(),
\* whatever was set, unset, begun, committed or rolled back in between.
C2_RollbackRestores ==
    [][Did("rollback")' =>
         /\ data' = Top(before).data
         /\ val_keys' = Top(before).val_keys]_vars

\* C2's case: a rollback has undone changes, and a key that was not set
\* before the begin() is again not set.
C2_Witness ==
    /\ Did("rollback") /\ popped[1].changed
    /\ DOMAIN data # Keys

\* C3: a commit() leaves the live state as the transaction made it, and a
\* rollback() that follows the commit() of a nested transaction restores the
\* state before the enclosing begin(), discarding the committed changes too.
C3_RollbackAfterInnerCommit ==
    [][/\ tx_stack # <<>> /\ Commit => data' = data /\ val_keys' = val_keys
       /\ Did("rollback")' /\ popped'[1].prev = "commit" =>
            /\ data' = Top(before).data
            /\ val_keys' = Top(before).val_keys]_vars

\* C3's case: a nested transaction that changed the state was committed, and
\* the next call rolled the enclosing transaction back, undoing changes.
C3_Witness ==
    /\ Did("rollback") /\ popped[1].changed
    /\ popped[1].prev = "commit" /\ popped[1].prev_changed

\* C4: the snapshot of every frame on the stack is the live state as it was at
\* that frame's begin(), and a rollback() removes the innermost frame only and
\* installs that frame's snapshot.
C4_InnermostOnly ==
    [][/\ Len(before') = Len(tx_stack')
       /\ \A i \in 1..Len(tx_stack') :
            tx_stack'[i].snapshot = <<before'[i].data, before'[i].val_keys>>
       /\ tx_stack # <<>> /\ Rollback =>
            /\ tx_stack' = Pop(tx_stack)
            /\ <<data', val_keys'>> = Top(tx_stack).snapshot]_vars

\* C4's case: the inner of two transactions was rolled back, and the state it
\* left is not the one the outer transaction's rollback will restore.
C4_Witness ==
    /\ Did("rollback")
    /\ Len(tx_stack) = 1
    /\ <<data, val_keys>> # tx_stack[1].snapshot

\* C5: commit() with a non-empty stack returns True, removes exactly the top
\* frame, and changes neither the live maps nor the snapshot or the change
\* log of any frame that stays.
C5_CommitFrame ==
    [][tx_stack # <<>> /\ Commit =>
         /\ ret' = Bool(TRUE)
         /\ tx_stack' = Pop(tx_stack)
         /\ data' = data /\ val_keys' = val_keys
         /\ \A i \in 1..(Len(tx_stack) - 1) :
              /\ tx_stack[i].logger \in DOMAIN loggers'
              /\ loggers'[tx_stack[i].logger] = loggers[tx_stack[i].logger]]_vars

\* C5's case: a nested transaction that changed the state was committed; the
\* enclosing frame stays, and the live state is not that frame's snapshot.
C5_Witness ==
    /\ Did("commit") /\ popped[1].changed
    /\ ret = Bool(TRUE)
    /\ Len(tx_stack) = 1
    /\ <<data, val_keys>> # tx_stack[1].snapshot

\* C6: rollback() and commit() on an empty stack return False, print
\* NO TRANSACTION, and leave the two maps, the stack (empty) and the active
\* logger (none) as they were.
C6_NoTransaction ==
    [][tx_stack = <<>> /\ (Rollback \/ Commit) =>
         /\ ret' = Bool(FALSE)
         /\ out' = <<"NO TRANSACTION">>
         /\ UNCHANGED store
         /\ tx_stack' = <<>>
         /\ current_logger' = NoLogger]_vars

\* C6's case: the call failed right after a commit() or rollback() that had
\* emptied the stack again, on a store that holds data.
C6_Witness ==
    /\ Did("none")
    /\ popped[1].prev \in {"commit", "rollback"}
    /\ ret = Bool(FALSE)
    /\ out = <<"NO TRANSACTION">>
    /\ data # EmptyDict

-----------------------------------------------------------------------------
\* Properties of the command interpreter.

\* The line has a verb that takes arguments, and not the number it takes
Mismatch(parts) ==
    /\ parts # <<>>
    /\ LET cmd == upper(parts[1])
       IN \/ cmd = "SET" /\ Len(parts) # 3
          \/ cmd \in {"GET", "UNSET", "COUNTS", "FIND"} /\ Len(parts) # 2

\* C7: a SET, GET, UNSET, COUNTS or FIND line with too few or too many tokens
\* leaves the two maps, the stack and the change logs as they were.
C7_MismatchKeepsState ==
    [][\A parts \in Lines :
         Mismatch(parts) /\ ProcessCommand(parts) => UNCHANGED store]_vars

\* C8: a SET, GET, UNSET, COUNTS or FIND line with too few or too many tokens
\* prints INVALID <CMD> COMMAND or INVALID COMMAND: <raw line>, and nothing else.
C8_MismatchReported ==
    [][\A parts \in Lines :
         Mismatch(parts) /\ ProcessCommand(parts) =>
           out' \in {<<"INVALID " \o upper(parts[1]) \o " COMMAND">>,
                     <<"INVALID COMMAND: " \o join(" ", parts)>>}]_vars

-----------------------------------------------------------------------------
\* Properties of the reads.

\* get(k) is the same for every key of ks before and after the step
SameGets(ks) == \A k \in ks : get(data', k) = get(data, k)

\* C9: get(k) is the value most recently assigned to k in the live state:
\* NULL for every key at first, v after set(k, v), NULL after unset(k), the
\* value before the matching begin() after a rollback(), and no other call,
\* nor a set or unset of another key, changes it.
C9_GetLatest ==
    /\ \A k \in Keys : get(data, k) = "NULL"
    /\ [][/\ \A k \in Keys, v \in Vals :
               Set(k, v) => get(data', k) = v /\ SameGets(Keys \ {k})
          /\ \A k \in Keys :
               Unset(k) => get(data', k) = "NULL" /\ SameGets(Keys \ {k})
          /\ tx_stack # <<>> /\ Rollback =>
               \A k \in Keys : get(data', k) = get(Top(before).data, k)
          /\ tx_stack = <<>> /\ Rollback => SameGets(Keys)
          /\ Begin \/ Commit => SameGets(Keys)
          /\ \A k \in Keys : Get(k) => ret' = Str(get(data, k)) /\ SameGets(Keys)
          /\ \A v \in Vals : Counts(v) \/ Find(v) => SameGets(Keys)]_vars

\* C9's case: inside a transaction get returned a value that was set, while
\* another key is not set.
C9_Witness ==
    /\ ret[1] = "str" /\ ret[2] \in Vals
    /\ tx_stack # <<>>
    /\ \E k \in Keys : get(data, k) = "NULL"

\* What a sequence holds
Range(f) == {f[i] : i \in 1..Len(f)}

\* C10: in every reachable state, for every value v, counts(v) is the number
\* of keys the primary mapping maps to v, and find(v) lists exactly those
\* keys, each once, in ascending order.
C10_CountsAndFind ==
    \A v \in Vals \cup {"baz"} :
        LET f == find(val_keys, v)
        IN /\ counts(val_keys, v) = Cardinality(KeysOf(data, v))
           /\ Range(f) = KeysOf(data, v)
           /\ Len(f) = Cardinality(KeysOf(data, v))
           /\ \A i, j \in 1..Len(f) : i < j => StrLess(f[i], f[j])

\* C10's case: find has returned two keys that share a value, while the other
\* value has no key.
C10_Witness ==
    /\ ret = List(<<"a", "b">>)
    /\ \E v \in Vals : counts(val_keys, v) = 2
    /\ \E v \in Vals : counts(val_keys, v) = 0 /\ find(val_keys, v) = <<>>

\* The nine command verbs
Verbs ==
    {"SET", "GET", "UNSET", "COUNTS", "FIND", "BEGIN", "ROLLBACK", "COMMIT", "END"}

\* The spellings of the verbs among the first tokens of Lines
VerbSpellings == Verbs \cup {"set", "Get", "unset", "rollback"}

\* What is printed for a line whose verb is unknown
InvalidCommand(parts) == <<"INVALID COMMAND: " \o join(" ", parts)>>

\* The lines of Lines whose first token is no verb in any case
UnknownLines == {parts \in Lines \ {<<>>} : parts[1] \notin VerbSpellings}

\* The unknown-verb reports of the lines of Lines whose first token is a verb
VerbReports ==
    {InvalidCommand(parts) :
        parts \in {l \in Lines \ {<<>>} : l[1] \in VerbSpellings}}

\* C11: a line whose first token is none of the nine verbs in any case prints
\* INVALID COMMAND: <raw line>, leaves the two maps, the stack and the change
\* logs as they were, and the loop keeps running; a line whose first token is
\* a verb in whatever case is never reported that way.
C11_UnknownVerb ==
    [][/\ \A parts \in UnknownLines :
            ProcessCommand(parts) =>
               /\ out' = InvalidCommand(parts)
               /\ UNCHANGED store
               /\ running'
       /\ out' \notin VerbReports]_vars

\* C11's case: an unknown verb was reported inside a transaction on a store
\* that holds a key, and the loop still runs.
C11_Witness ==
    /\ out = <<"INVALID COMMAND: gets a">>
    /\ tx_stack # <<>>
    /\ data # EmptyDict
    /\ running

\* C12: in every reachable state the active logger is the logger of the top
\* frame when the stack is not empty and none when it is empty; the frames
\* hold different loggers, each with a log of its own.
C12_ActiveLogger ==
    /\ tx_stack = <<>> => current_logger = NoLogger
    /\ tx_stack # <<>> => /\ current_logger = Top(tx_stack).logger
                          /\ current_logger # NoLogger
    /\ \A i \in 1..Len(tx_stack) :
          /\ tx_stack[i].logger \in DOMAIN loggers
          /\ \A j \in 1..Len(tx_stack) :
                tx_stack[i].logger = tx_stack[j].logger => i = j

\* C12's case: a rollback() or commit() has popped an inner frame that had
\* recorded a call, and the active logger is the outer frame's, whose log is
\* another one.
C12_Witness ==
    /\ popped # <<>> /\ popped[1].how \in {"rollback", "commit"}
    /\ Len(popped[1].calls) > 1
    /\ Len(tx_stack) = 1
    /\ current_logger = tx_stack[1].logger
    /\ get_changes(loggers, current_logger) # popped[1].calls

\* What rollback() and commit() print before the log of the popped frame
ReportHead(how) ==
    IF how = "rollback" THEN "ROLLBACK: Changes reverted. Log: "
    ELSE "COMMIT: Changes applied. Log: "

\* C13: the log a rollback() or commit() prints for the frame it pops is
\* BEGIN followed, in call order, by one SET k v for every set and one UNSET k
\* for every unset of a present key called while that frame was the innermost,
\* and nothing else; the log of every frame still open is the same list of
\* its own calls, so the calls made in a nested frame are in no other log.
C13_ReportedLog ==
    /\ popped # <<>> /\ popped[1].how # "none" =>
          /\ out = <<ReportHead(popped[1].how) \o repr(popped[1].calls)>>
          /\ Head(popped[1].calls) = "BEGIN"
    /\ Len(before) = Len(tx_stack)
    /\ \A i \in 1..Len(tx_stack) :
          /\ get_changes(loggers, tx_stack[i].logger) = before[i].calls
          /\ Head(before[i].calls) = "BEGIN"

\* C13's case: a frame in which a key was set and then unset was popped and
\* its log printed.
C13_Witness ==
    /\ popped # <<>> /\ popped[1].how # "none"
    /\ popped[1].calls = <<"BEGIN", "SET a foo", "UNSET a">>
    /\ out = <<ReportHead(popped[1].how)
               \o "['BEGIN', 'SET a foo', 'UNSET a']">>

\* C14: a set(key, value) called with a frame on the stack appends the one
\* record SET key value to the top frame's log, whatever the key held, and
\* leaves every other log as it was; called with an empty stack it leaves
\* every log as it was.
C14_SetRecorded ==
    [][\A k \in Keys, v \in Vals :
         Set(k, v) =>
            IF tx_stack # <<>>
            THEN loggers' = [loggers EXCEPT ![Top(tx_stack).logger] =
                                Append(@, "SET " \o k \o " " \o v)]
            ELSE loggers' = loggers]_vars

\* C14's case: in the inner of two frames a key was set to the value it
\* already held; the inner log has the record, the outer log has none.
C14_Witness ==
    /\ Len(tx_stack) = 2
    /\ get_changes(loggers, tx_stack[2].logger) = <<"BEGIN", "SET a foo">>
    /\ get_changes(loggers, tx_stack[1].logger) = <<"BEGIN">>
    /\ get(tx_stack[2].snapshot[1], "a") = "foo"
    /\ data = tx_stack[2].snapshot[1]

\* C15: an unset(key) of a key that is not set leaves the two maps, the
\* stack, the active logger and every log as they were, inside a transaction
\* too; an unset(key) of a key that is set, called with a frame on the stack,
\* appends the one record UNSET key to the top frame's log and leaves every
\* other log as it was.
C15_UnsetRecorded ==
    [][\A k \in Keys :
         Unset(k) =>
            /\ k \notin DOMAIN data => UNCHANGED store
            /\ k \in DOMAIN data /\ tx_stack # <<>> =>
                  loggers' = [loggers EXCEPT ![Top(tx_stack).logger] =
                                 Append(@, "UNSET " \o k)]]_vars

\* C15's case: in the inner of two frames the key a, set before them, was
\* unset and recorded, while the key b is not set and no UNSET b is recorded.
C15_Witness ==
    /\ Len(tx_stack) = 2
    /\ get_changes(loggers, tx_stack[2].logger) = <<"BEGIN", "UNSET a">>
    /\ get_changes(loggers, tx_stack[1].logger) = <<"BEGIN">>
    /\ DOMAIN tx_stack[2].snapshot[1] = {"a"}
    /\ data = EmptyDict

\* C16: no call changes the snapshot of a frame that stays on the stack: after
\* every set, unset, read, begin, commit and rollback, each frame that is
\* still on the stack holds the copy of the primary mapping and the copy of
\* every set of the reverse index that it held before the call.
C16_SnapshotFrozen ==
    [][\A i \in 1..Len(tx_stack) :
          i <= Len(tx_stack') =>
             tx_stack'[i].snapshot = tx_stack[i].snapshot]_vars

\* C16's case: two frames whose snapshots differ are on the stack, and the
\* live maps, written to after the inner begin(), differ from both.
C16_Witness ==
    /\ Len(tx_stack) = 2
    /\ tx_stack[1].snapshot # tx_stack[2].snapshot
    /\ <<data, val_keys>> # tx_stack[2].snapshot
    /\ <<data, val_keys>> # tx_stack[1].snapshot

\* C17: get, counts and find change nothing: after the call the two maps, the
\* stack, the active logger and every log are what they were, and the reverse
\* index has no entry for a looked-up value that no key holds.
C17_ReadsChangeNothing ==
    [][/\ \A k \in Keys : Get(k) => UNCHANGED store
       /\ \A v \in Vals :
             Counts(v) \/ Find(v) =>
                /\ UNCHANGED store
                /\ counts(val_keys, v) = 0 => v \notin DOMAIN val_keys']_vars

\* C17's case: inside a transaction on a store that holds a key, find has
\* returned no key for a value, and the reverse index has no entry for it.
C17_Witness ==
    /\ ret = List(<<>>)
    /\ tx_stack # <<>>
    /\ data # EmptyDict
    /\ Cardinality(DOMAIN val_keys) = 1

\* C18: the stack is last-in first-out. A begin() returns None, puts one frame
\* on top of the frames there were and leaves them and the two maps as they
\* were; a commit() or rollback() on a non-empty stack returns True and
\* removes the top frame alone; set, unset, get, counts and find leave the
\* stack as it was.
C18_Lifo ==
    [][/\ Begin => /\ tx_stack' = Append(tx_stack, Top(tx_stack'))
                   /\ Len(tx_stack') = Len(tx_stack) + 1
                   /\ UNCHANGED <<data, val_keys>>
                   /\ ret' = None
       /\ tx_stack # <<>> /\ (Commit \/ Rollback) =>
             /\ tx_stack' = Pop(tx_stack)
             /\ Len(tx_stack') = Len(tx_stack) - 1
             /\ ret' = Bool(TRUE)
       /\ (\E k \in Keys : Unset(k) \/ Get(k) \/ \E v \in Vals : Set(k, v)) =>
             UNCHANGED tx_stack
       /\ (\E v \in Vals : Counts(v) \/ Find(v)) => UNCHANGED tx_stack]_vars

\* C18's case: with two frames on the stack a commit() or rollback() returned
\* True and removed the inner one, which had recorded no call, and left the
\* outer one, in which a key had been set.
C18_Witness ==
    /\ popped # <<>> /\ popped[1].how \in {"rollback", "commit"}
    /\ popped[1].calls = <<"BEGIN">>
    /\ ret = Bool(TRUE)
    /\ Len(tx_stack) = 1
    /\ get_changes(loggers, tx_stack[1].logger) = <<"BEGIN", "SET a foo">>

\* The two maps after set(key, value) on the maps d and vk
AfterSet(d, vk, key, value) ==
    [data |-> set_data(d, key, value),
     val_keys |-> set_val_keys(d, vk, key, value)]

\* C19: in every reachable state and for every key k and value v, the two
\* maps after set(k, v) called twice are the two maps after set(k, v) called
\* once, and when k already maps to v the two maps after set(k, v) are the
\* two maps before it, the entry of v with k as its only key included.
C19_SetIdempotent ==
    \A k \in Keys, v \in Vals :
        LET once == AfterSet(data, val_keys, k, v)
            twice == AfterSet(once.data, once.val_keys, k, v)
        IN /\ twice.data = once.data
           /\ twice.val_keys = once.val_keys
           /\ get(data, k) = v => /\ once.data = data
                                  /\ once.val_keys = val_keys

\* C19's case: inside a transaction the key a was set to foo twice in a row,
\* and it is the only key that holds foo.
C19_Witness ==
    /\ Len(tx_stack) = 1
    /\ get_changes(loggers, tx_stack[1].logger)
          = <<"BEGIN", "SET a foo", "SET a foo">>
    /\ data = Put(EmptyDict, "a", "foo")
    /\ val_keys = Put(EmptyDict, "foo", {"a"})

=============================================================================
